---- MODULE Spec2Model ----
(***************************************************************************)
(* JTF News (src/main.py): the verification and deduplication pipeline.   *)
(* Pending queue with expiry, source-independence test, lexical           *)
(* prefilter, two-tier duplicate detector and the polling cycle that      *)
(* composes them into the publish / enqueue / drop decision.              *)
(*                                                                         *)
(* Texts are sequences of one-character strings so that lower(), split()  *)
(* and the word-set comparison are computed, not assumed.                 *)
(***************************************************************************)
EXTENDS Integers, Sequences, FiniteSets, TLC

VARIABLES
    sources,                 \* CONFIG["sources"] as id -> record
    max_shared_top_holders,  \* CONFIG["unrelated_rules"]["max_shared_top_holders"]
    now,                     \* datetime.now(timezone.utc), in hours
    pc,                      \* position of main / process_cycle; "extract",
                             \* "dup_oracle" and "match_oracle" are oracle
                             \* calls awaiting their reply, "dup_yes" the
                             \* duplicate check about to return True,
                             \* "dup_err" and "match_err" the except blocks
                             \* of the two calls, "killed" and
                             \* "interrupted" the process after it has exited
    queueFile,               \* data/queue.json
    queue,                   \* process_cycle's local `queue`
    shownFile,               \* data/shown_<date>.txt, as a set of <<date, hash>>
    storiesFile,             \* data/stories.json: [date, stories]
    processedFile,           \* data/processed_<date>.txt, as a set of <<date, hash>>
    processed_cache,         \* process_cycle's local `processed_cache`
    headline,                \* the headline being processed
    fact,                    \* the extracted fact being processed
    matches,                 \* process_cycle's local `matches`
    match,                   \* the match being published
    nHeadlines,              \* headlines sent to extract_fact so far
    logFile,                 \* data/<date>.txt, as the set of dates that have one
    archiveDir,              \* archive/<year>/, as a set of <<kind, date>>:
                             \* <<"log", d>> is <d>.txt.gz
    kill,                    \* KILL_SWITCH.exists()
    alert,                   \* what became of the handler's send_alert
    response,                \* the extraction oracle's response being parsed
    gone,                    \* items a publication has removed from the
                             \* queue of its cycle (history)
    arg1, arg2, ret,         \* a direct call of are_sources_unrelated
    fact1, fact2, threshold, overlap,   \* a direct call of has_word_overlap
    matchAnswer              \* the matching oracle's reply in a direct call
                             \* of find_matching_stories

vars == <<sources, max_shared_top_holders, now, pc, queueFile, queue, shownFile,
          storiesFile, processedFile, processed_cache, headline, fact, matches,
          match, nHeadlines, logFile, archiveDir, kill, alert, response, gone,
          arg1, arg2, ret, fact1, fact2, threshold, overlap, matchAnswer>>

---------------------------------------------------------------------------
(* Bounds of the model *)

MaxTicks == 1          \* the clock advances at most this many times
MaxHeadlines == 2      \* headlines sent to extract_fact over the whole run
MaxShared == 2         \* max_shared_top_holders ranges over 0..MaxShared
MaxWords == 2          \* words in a fact handed to has_word_overlap directly

---------------------------------------------------------------------------
(* Text: str.lower(), str.split(), hashing *)

Upper == <<"P", "A", "R", "K", "O", "F", "U", "N", "D", "Q", "E">>
Lower == <<"p", "a", "r", "k", "o", "f", "u", "n", "d", "q", "e">>

\* one character of str.lower()
LowerChar(c) ==
    IF \E i \in 1..Len(Upper) : Upper[i] = c
    THEN Lower[CHOOSE i \in 1..Len(Upper) : Upper[i] = c]
    ELSE c

\* str.lower()
lower(text) == [i \in 1..Len(text) |-> LowerChar(text[i])]

RECURSIVE SplitFrom(_, _, _)
\* str.split(): the maximal runs of non-blank characters, in order
SplitFrom(text, i, word) ==
    IF i > Len(text)
    THEN IF word = <<>> THEN <<>> ELSE <<word>>
    ELSE IF text[i] = " "
         THEN IF word = <<>>
              THEN SplitFrom(text, i + 1, <<>>)
              ELSE <<word>> \o SplitFrom(text, i + 1, <<>>)
         ELSE SplitFrom(text, i + 1, Append(word, text[i]))

split(text) == SplitFrom(text, 1, <<>>)

\* hashlib.md5(text.lower().encode()).hexdigest()[:12]: the digest is taken
\* as injective on the lower-cased text, so it is that text wrapped.
get_story_hash_cased(text) == <<"md5", text>>

get_story_hash(text) == <<"md5", lower(text)>>

Range(s) == {s[i] : i \in 1..Len(s)}

Min(a, b) == IF a <= b THEN a ELSE b

OverlapPercent == 15

\* has_word_overlap measuring the shared words against the first fact's
\* words, not against the smaller of the two sets
has_word_overlap_first(f1, f2, percent) ==
    LET words1 == {lower(w) : w \in {x \in Range(split(f1)) : Len(x) >= 3}}
        words2 == {lower(w) : w \in {x \in Range(split(f2)) : Len(x) >= 3}}
        shared == words1 \cap words2
    IN  IF words1 = {} \/ words2 = {}
        THEN FALSE
        ELSE Cardinality(shared) * 100 >= Cardinality(words1) * percent

\* has_word_overlap comparing the words as written, without lower()
has_word_overlap_cased(f1, f2, percent) ==
    LET words1 == {x \in Range(split(f1)) : Len(x) >= 3}
        words2 == {x \in Range(split(f2)) : Len(x) >= 3}
        shared == words1 \cap words2
        min_len == Min(Cardinality(words1), Cardinality(words2))
    IN  IF words1 = {} \/ words2 = {}
        THEN FALSE
        ELSE Cardinality(shared) * 100 >= min_len * percent

\* has_word_overlap(fact1, fact2, threshold), the threshold in percent
has_word_overlap_at(f1, f2, percent) ==
    LET words1 == {lower(w) : w \in {x \in Range(split(f1)) : Len(x) >= 3}}
        words2 == {lower(w) : w \in {x \in Range(split(f2)) : Len(x) >= 3}}
        shared == words1 \cap words2
        min_len == Min(Cardinality(words1), Cardinality(words2))
    IN  IF words1 = {} \/ words2 = {}
        THEN FALSE
        ELSE Cardinality(shared) * 100 >= min_len * percent

\* has_word_overlap(fact1, fact2), threshold=0.15
has_word_overlap(f1, f2) == has_word_overlap_at(f1, f2, OverlapPercent)

---------------------------------------------------------------------------
(* Source registry and the independence test *)

Holders == {"Vanguard", "BlackRock"}

\* sources.get(id): None for an id the registry does not hold
Known(id) == id \in DOMAIN sources

\* are_sources_unrelated with the same-owner test left out
are_sources_unrelated_no_owner(source1_id, source2_id) ==
    IF ~Known(source1_id) \/ ~Known(source2_id)
    THEN FALSE
    ELSE LET holders1 == sources[source1_id].institutional_holders
             holders2 == sources[source2_id].institutional_holders
             shared == holders1 \cap holders2
         IN  IF Cardinality(shared) >= max_shared_top_holders
             THEN FALSE
             ELSE TRUE

\* are_sources_unrelated with the holder test off by one (> for >=)
are_sources_unrelated_gt(source1_id, source2_id) ==
    IF ~Known(source1_id) \/ ~Known(source2_id)
    THEN FALSE
    ELSE LET s1 == sources[source1_id]
             s2 == sources[source2_id]
         IN  IF s1.owner = s2.owner
             THEN FALSE
             ELSE IF Cardinality(s1.institutional_holders
                                 \cap s2.institutional_holders)
                     > max_shared_top_holders
                  THEN FALSE
                  ELSE TRUE

\* are_sources_unrelated(source1_id, source2_id)
are_sources_unrelated(source1_id, source2_id) ==
    IF ~Known(source1_id) \/ ~Known(source2_id)
    THEN FALSE
    ELSE LET s1 == sources[source1_id]
             s2 == sources[source2_id]
         IN  IF s1.owner = s2.owner
             THEN FALSE
             ELSE LET holders1 == s1.institutional_holders
                      holders2 == s2.institutional_holders
                      shared == holders1 \cap holders2
                  IN  IF Cardinality(shared) >= max_shared_top_holders
                      THEN FALSE
                      ELSE TRUE

---------------------------------------------------------------------------
(* Time, configuration and the values the pipeline handles *)

HoursPerDay == 24
queue_timeout_hours == 12    \* CONFIG["thresholds"]["queue_timeout_hours"]
HoursPerTick == queue_timeout_hours \div 2     \* resolution of the clock
min_confidence == 85         \* CONFIG["thresholds"]["min_confidence"]

\* datetime.now(timezone.utc).strftime("%Y-%m-%d"), as a day number
Date(t) == t \div HoursPerDay

\* The registry of the end-to-end scenarios: A and B share an owner; C and D
\* have owners of their own and share one holder with the others, where two
\* shared holders make two sources related.
PipelineIds == {"A", "B", "C", "D"}

ScenarioSources ==
    [id \in PipelineIds |->
        CASE id = "C" -> [owner |-> "Civic", institutional_holders |-> {"Vanguard"}]
          [] id = "D" -> [owner |-> "Delta", institutional_holders |-> {"Vanguard"}]
          [] OTHER -> [owner |-> "Acme",
                       institutional_holders |-> {"Vanguard", "BlackRock"}]]

ScenarioMaxShared == 2

\* Facts the extraction oracle can return
FactPark == <<"P", "a", "r", "k", " ", "o", "k">>
FactParkUpper == <<"P", "A", "R", "K", " ", "O", "K">>
FactParkFund == <<"p", "a", "r", "k", " ", "f", "u", "n", "d">>
FactQuake == <<"q", "u", "a", "k", "e">>
Facts == {FactPark, FactParkUpper, FactParkFund, FactQuake}
SKIP == <<"S", "K", "I", "P">>

\* The headlines the scraper can return, and the fact the extraction oracle
\* reads in each: B and C report the park story in the same words, D
\* reports it in capitals, C also reports it in other words, A reports an
\* unrelated story
Feed ==
    {[text |-> <<"h", "2">>, source_id |-> "B", fact |-> FactPark],
     [text |-> <<"h", "3">>, source_id |-> "C", fact |-> FactPark],
     [text |-> <<"h", "4">>, source_id |-> "D", fact |-> FactParkUpper],
     [text |-> <<"h", "5">>, source_id |-> "C", fact |-> FactParkFund],
     [text |-> <<"h", "6">>, source_id |-> "A", fact |-> FactQuake]}

\* A response of the extraction oracle. kind "json": text that json.loads
\* accepts, the has_ fields telling which keys the object holds; "text": text
\* that json.loads rejects, the has_ fields telling what the two regular
\* expressions find in it; "error": the call raises.
Resp(kind, hf, f, hc, c, hn, n) ==
    [kind |-> kind, has_fact |-> hf, fact |-> f, has_confidence |-> hc,
     confidence |-> c, has_newsworthy |-> hn, newsworthy |-> n]

NoResponse == Resp("", FALSE, <<>>, FALSE, 0, FALSE, FALSE)

\* What the oracle can answer for a headline that reports the fact f
Responses(f) ==
    {Resp("json", TRUE, f, TRUE, 90, TRUE, TRUE),
     Resp("json", TRUE, f, TRUE, 90, TRUE, FALSE),
     Resp("json", TRUE, f, TRUE, 50, TRUE, TRUE),
     Resp("json", TRUE, SKIP, TRUE, 0, TRUE, FALSE),
     Resp("json", TRUE, f, TRUE, 90, FALSE, FALSE),
     Resp("json", TRUE, f, FALSE, 0, TRUE, TRUE),
     Resp("json", FALSE, <<>>, TRUE, 90, TRUE, TRUE),
     Resp("text", TRUE, f, TRUE, 90, FALSE, FALSE),
     Resp("text", TRUE, f, FALSE, 0, FALSE, FALSE),
     Resp("text", FALSE, <<>>, FALSE, 0, FALSE, FALSE),
     Resp("error", FALSE, <<>>, FALSE, 0, FALSE, FALSE)}

DefaultConfidence == 85      \* extract_fact's fallback without a confidence

\* {"fact": "SKIP", "confidence": 0, ...}
SkipResult == Resp("dict", TRUE, SKIP, TRUE, 0, FALSE, FALSE)

\* extract_fact, lines 136-153: json.loads, else the regular expressions
ParseResponse(r) ==
    IF r.kind = "json"
    THEN Resp("dict", r.has_fact, r.fact, r.has_confidence, r.confidence,
              r.has_newsworthy, r.newsworthy)
    ELSE IF r.has_fact
         THEN Resp("dict", TRUE, r.fact, TRUE,
                   IF r.has_confidence THEN r.confidence ELSE DefaultConfidence,
                   FALSE, FALSE)
         ELSE SkipResult

\* extract_fact without its except block: a raising call gives no result
extract_fact_no_handler(r) ==
    IF r.kind = "error"
    THEN Resp("dict", FALSE, <<>>, FALSE, 0, FALSE, FALSE)
    ELSE ParseResponse(r)

\* extract_fact(headline) given the oracle's response: the dict it returns,
\* the has_ fields telling which keys the dict holds
extract_fact(r) ==
    IF r.kind = "error"
    THEN SkipResult
    ELSE ParseResponse(r)

\* process_cycle, lines 917-921: result["fact"] or result["confidence"]
\* raises KeyError
RaisesKeyError(result) ==
    \/ ~result.has_fact
    \/ result.fact # SKIP /\ ~result.has_confidence

\* result.get("newsworthy", True)
Newsworthy(result) == IF result.has_newsworthy THEN result.newsworthy ELSE TRUE

\* process_cycle's gate with the confidence test left out
PassesGateNoConfidence(result) ==
    /\ result.fact # SKIP
    /\ Newsworthy(result)

\* process_cycle, lines 917-933: the result goes on to is_duplicate
PassesGate(result) ==
    /\ result.fact # SKIP
    /\ ~(result.confidence < min_confidence)
    /\ Newsworthy(result)

NoHeadline == [text |-> <<>>, source_id |-> "", timestamp |-> 0]
NoItem == [fact |-> <<>>, source_id |-> "", timestamp |-> 0]
NoStories == [date |-> -1, stories |-> <<>>]     \* stories.json absent

---------------------------------------------------------------------------
(* Queue management *)

RECURSIVE CleanFrom(_, _, _)
\* the loop of clean_expired_queue
CleanFrom(q, i, cutoff) ==
    IF i > Len(q)
    THEN <<>>
    ELSE IF q[i].timestamp > cutoff
         THEN <<q[i]>> \o CleanFrom(q, i + 1, cutoff)
         ELSE CleanFrom(q, i + 1, cutoff)

RECURSIVE CleanFromGe(_, _, _)
\* the loop of clean_expired_queue with > replaced by >=
CleanFromGe(q, i, cutoff) ==
    IF i > Len(q)
    THEN <<>>
    ELSE IF q[i].timestamp >= cutoff
         THEN <<q[i]>> \o CleanFromGe(q, i + 1, cutoff)
         ELSE CleanFromGe(q, i + 1, cutoff)

\* clean_expired_queue keeping the item whose age equals the timeout
clean_expired_queue_ge(q, t) == CleanFromGe(q, 1, t - queue_timeout_hours)

\* clean_expired_queue that removes nothing
clean_expired_queue_keep(q, t) == q

\* clean_expired_queue that also drops the items of earlier dates
clean_expired_queue_today(q, t) ==
    SelectSeq(CleanFrom(q, 1, t - queue_timeout_hours),
              LAMBDA item : Date(item.timestamp) = Date(t))

\* clean_expired_queue(queue), t being the clock value it reads
clean_expired_queue(q, t) == CleanFrom(q, 1, t - queue_timeout_hours)

---------------------------------------------------------------------------
(* Duplicate detection *)

\* load_shown_hashes reading the hashes of every day
load_shown_hashes_all(t) == {e[2] : e \in shownFile}

\* load_shown_hashes(), t being the clock value it reads
load_shown_hashes(t) == {e[2] : e \in {x \in shownFile : x[1] = Date(t)}}

\* load_published_stories()
load_published_stories(t) ==
    IF storiesFile.date = Date(t)
    THEN [i \in 1..Len(storiesFile.stories) |-> storiesFile.stories[i].fact]
    ELSE <<>>

\* is_duplicate's fast path on the hash of the text as written
FastPathCased(f, t) == get_story_hash_cased(f) \in load_shown_hashes(t)

\* is_duplicate's fast path: story_hash in shown
FastPath(f, t) == get_story_hash(f) \in load_shown_hashes(t)

\* the shortlist of is_duplicate_batch
DupCandidates(f, pub) == SelectSeq(pub, LAMBDA p : has_word_overlap(f, p))

\* is_duplicate_batch reaches its oracle call
DupNeedsOracle(f, pub) == pub # <<>> /\ DupCandidates(f, pub) # <<>>

---------------------------------------------------------------------------
(* Corroboration matching *)

\* the shortlist of find_matching_stories
MatchCandidates(f, q) == SelectSeq(q, LAMBDA item : has_word_overlap(f, item.fact))

\* find_matching_stories calling the oracle whenever the queue is not empty
MatchNeedsOracleNoPrefilter(f, q) == q # <<>>

\* find_matching_stories reaches its oracle call
MatchNeedsOracle(f, q) == q # <<>> /\ MatchCandidates(f, q) # <<>>

\* A token of the oracle's comma-separated reply: a number, or text int() rejects
Tokens(n) == {[num |-> TRUE, val |-> k] : k \in 0..(n + 1)}
             \cup {[num |-> FALSE, val |-> 0]}

MaxReply == 2          \* tokens in one reply of the matching oracle

Replies(n) == UNION {[1..k -> Tokens(n)] : k \in 1..MaxReply}

RECURSIVE ParseMatches(_, _, _)
\* the parsing loop of find_matching_stories
ParseMatches(answer, i, candidates) ==
    IF i > Len(answer)
    THEN <<>>
    ELSE LET idx == answer[i].val - 1
         IN  IF answer[i].num /\ 0 <= idx /\ idx < Len(candidates)
             THEN <<candidates[idx + 1]>> \o ParseMatches(answer, i + 1, candidates)
             ELSE ParseMatches(answer, i + 1, candidates)

\* The reply of the matching oracle to one call. kind "list": text other
\* than "NONE" and not empty, as its comma-separated tokens; "none": "NONE";
\* "empty": no text; "raise": the call raises
Answer(kind, tokens) == [kind |-> kind, tokens |-> tokens]

NoAnswer == Answer("", <<>>)

\* find_matching_stories reading the indices against the whole queue
find_matching_stories_queue(f, q, a) ==
    IF q = <<>>
    THEN <<>>
    ELSE IF MatchCandidates(f, q) = <<>>
         THEN <<>>
         ELSE IF a.kind = "raise"
              THEN <<>>
              ELSE IF a.kind = "none" \/ a.kind = "empty"
                   THEN <<>>
                   ELSE ParseMatches(a.tokens, 1, q)

\* find_matching_stories(fact, queue), a being the oracle's reply
find_matching_stories(f, q, a) ==
    IF q = <<>>
    THEN <<>>
    ELSE LET candidates == MatchCandidates(f, q)
         IN  IF candidates = <<>>
             THEN <<>>
             ELSE IF a.kind = "raise"
                  THEN <<>>
                  ELSE IF a.kind = "none" \/ a.kind = "empty"
                       THEN <<>>
                       ELSE ParseMatches(a.tokens, 1, candidates)

RECURSIVE FirstFrom(_, _, _)
FirstFrom(src, ms, i) ==
    IF i > Len(ms)
    THEN 0
    ELSE IF are_sources_unrelated(src, ms[i].source_id)
         THEN i
         ELSE FirstFrom(src, ms, i + 1)

\* the for loop of process_cycle taking the first match whatever its source
FirstMatch(src, ms) == IF ms = <<>> THEN 0 ELSE 1

\* the for loop of process_cycle: index of the first match whose source is
\* unrelated to the headline's, 0 when the loop ends without a break
FirstIndependent(src, ms) == FirstFrom(src, ms, 1)

\* queue = [q for q in queue if q["fact"] != match["fact"]]
RemoveMatch(q, m) == SelectSeq(q, LAMBDA x : x.fact # m.fact)

---------------------------------------------------------------------------
(* The polling loop and process_cycle *)

configVars == <<sources, max_shared_top_holders>>
callVars == <<arg1, arg2, ret, fact1, fact2, threshold, overlap,
              matchAnswer>>
fileVars == <<queueFile, shownFile, storiesFile, processedFile>>
archiveVars == <<logFile, archiveDir>>
factVars == <<headline, fact, matches, match>>

\* the process is started one tick before the midnight that ends day 0
StartHour == HoursPerDay - HoursPerTick

\* now.hour
Hour(t) == t % HoursPerDay

\* data/queue.json as the previous run of the process left it: empty, or
\* holding A's report of the park story, scraped one tick before the start
InitialQueues ==
    {<<>>,
     <<[fact |-> FactPark, source_id |-> "A",
        timestamp |-> StartHour - HoursPerTick]>>}

InitPipeline ==
    /\ now = StartHour
    /\ pc = "idle"
    /\ queueFile \in InitialQueues
    /\ queue = <<>>
    /\ shownFile = {}
    /\ storiesFile = NoStories
    /\ processedFile = {}
    /\ processed_cache = {}
    /\ headline = NoHeadline
    /\ fact = <<>>
    /\ matches = <<>>
    /\ match = NoItem
    /\ nHeadlines = 0
    /\ logFile = {}
    /\ archiveDir = {}
    /\ kill = FALSE
    /\ alert = "none"
    /\ response = NoResponse
    /\ gone = {}

NoCall ==
    /\ arg1 = "" /\ arg2 = "" /\ ret = FALSE
    /\ fact1 = <<>> /\ fact2 = <<>> /\ threshold = 0 /\ overlap = FALSE
    /\ matchAnswer = NoAnswer

Init ==
    /\ sources = ScenarioSources
    /\ max_shared_top_holders = ScenarioMaxShared
    /\ NoCall
    /\ InitPipeline

\* The for loop goes on to the next headline: the locals of the finished
\* iteration are not read again
Continue ==
    /\ pc' = "loop"
    /\ headline' = NoHeadline
    /\ fact' = <<>>
    /\ matches' = <<>>
    /\ match' = NoItem

\* the locals of process_cycle are gone when it returns or raises
Return ==
    /\ queue' = <<>>
    /\ processed_cache' = {}
    /\ headline' = NoHeadline
    /\ fact' = <<>>
    /\ matches' = <<>>
    /\ match' = NoItem
    /\ response' = NoResponse

\* main, lines 1011 and 1019: time passes while the loop sleeps. A cycle is
\* short against the resolution of the clock, which does not advance in it.
Tick ==
    /\ pc = "idle"
    /\ now < StartHour + MaxTicks * HoursPerTick
    /\ now' = now + HoursPerTick
    /\ UNCHANGED <<configVars, callVars, fileVars, archiveVars, factVars, pc,
                   queue, processed_cache, nHeadlines, kill, alert, response,
                   gone>>

\* Where the outside world is seen to act on the process: while the loop
\* sleeps, between two headlines, while an oracle call is in flight, while
\* the handler sleeps
Exposed == pc \in {"idle", "loop", "extract", "dup_oracle", "match_oracle",
                   "cooldown"}

\* somebody creates /tmp/jtf-stop
TouchKill ==
    /\ Exposed
    /\ ~kill
    /\ kill' = TRUE
    /\ UNCHANGED <<configVars, callVars, fileVars, archiveVars, factVars, pc,
                   now, queue, processed_cache, nHeadlines, alert, response,
                   gone>>

\* archive_daily_log(), lines 837-874, y being yesterday
archive_daily_log(y) ==
    IF y \notin logFile
    THEN UNCHANGED <<archiveVars, shownFile, processedFile>>
    ELSE /\ archiveDir' = archiveDir \cup {<<"log", y>>}
         /\ logFile' = logFile \ {y}
         /\ shownFile' = {x \in shownFile : x[1] # y}
         /\ processedFile' = {x \in processedFile : x[1] # y}

\* main, line 1004: check_midnight_archive(), lines 985-989. The minute of
\* the hour is not in the clock: in hour 0 the archive runs or does not; its
\* writes can raise.
CheckMidnightArchive ==
    /\ pc = "idle"
    /\ \/ /\ pc' = "start"
          /\ UNCHANGED <<archiveVars, shownFile, processedFile>>
       \/ /\ Hour(now) = 0
          /\ archive_daily_log(Date(now) - 1)
          /\ pc' = "start"
       \/ /\ Hour(now) = 0
          /\ Date(now) - 1 \in logFile
          /\ pc' = "alert"
          /\ UNCHANGED <<archiveVars, shownFile, processedFile>>
    /\ UNCHANGED <<configVars, callVars, queueFile, storiesFile, factVars, now,
                   queue, processed_cache, nHeadlines, kill, alert, response,
                   gone>>

\* KILL_SWITCH.exists() with the switch never seen
KillSwitchIgnored == FALSE

\* process_cycle, line 887: KILL_SWITCH.exists()
KillSwitchExists == kill

\* process_cycle, lines 887-893: sys.exit(0) when the kill switch exists,
\* else load the queue and drop what has expired
StartCycle ==
    /\ pc = "start"
    /\ IF KillSwitchExists
       THEN /\ pc' = "killed"
            /\ UNCHANGED queue
       ELSE /\ queue' = clean_expired_queue(queueFile, now)
            /\ pc' = "scrape"
    /\ UNCHANGED <<configVars, callVars, fileVars, archiveVars, factVars, now,
                   processed_cache, nHeadlines, kill, alert, response, gone>>

\* process_cycle, lines 896-900: the scrape ends, the cache of processed
\* headlines is loaded
Scrape ==
    /\ pc = "scrape"
    /\ processed_cache' = {e[2] : e \in {x \in processedFile : x[1] = Date(now)}}
    /\ pc' = "loop"
    /\ UNCHANGED <<configVars, callVars, fileVars, archiveVars, factVars, now,
                   queue, nHeadlines, kill, alert, response, gone>>

\* is_headline_processed that finds no headline in the cache
is_headline_processed_never(headline_text, cache) == FALSE

\* is_headline_processed(headline_text, processed_cache)
is_headline_processed(headline_text, cache) ==
    get_story_hash(headline_text) \in cache

\* process_cycle, lines 904-914: the next headline of the list, the scraper
\* returning headlines of `feed`; skipped when its hash is in the cache, else
\* marked as processed and sent to extract_fact
NextHeadlineFrom(feed) ==
    /\ pc = "loop"
    /\ \E h \in feed :
         IF is_headline_processed(h.text, processed_cache)
         THEN UNCHANGED <<pc, headline, processedFile, nHeadlines>>
         ELSE /\ nHeadlines < MaxHeadlines
              /\ nHeadlines' = nHeadlines + 1
              /\ processedFile' =
                     processedFile \cup {<<Date(now), get_story_hash(h.text)>>}
              /\ headline' = [text |-> h.text, source_id |-> h.source_id,
                              timestamp |-> now]
              /\ pc' = "extract"
    /\ UNCHANGED <<configVars, callVars, queueFile, shownFile, storiesFile,
                   archiveVars, now, queue, processed_cache, fact, matches,
                   match, kill, alert, response, gone>>

NextHeadline == NextHeadlineFrom(Feed)

\* extract_fact, lines 121-134: the extraction oracle answers, or the call
\* raises
ExtractReplyFrom(feed) ==
    /\ pc = "extract"
    /\ \E h \in {x \in feed : x.text = headline.text
                              /\ x.source_id = headline.source_id} :
         response' \in Responses(h.fact)
    /\ pc' = "parse"
    /\ UNCHANGED <<configVars, callVars, fileVars, archiveVars, factVars, now,
                   queue, processed_cache, nHeadlines, kill, alert, gone>>

ExtractReply == ExtractReplyFrom(Feed)

\* extract_fact, lines 136-157, and process_cycle, lines 914-933: the
\* response is parsed; a missing key raises out of the cycle; the gate on the
\* sentinel, the confidence and the newsworthiness
Extract ==
    /\ pc = "parse"
    /\ LET result == extract_fact(response)
       IN  IF RaisesKeyError(result)
           THEN /\ pc' = "alert"
                /\ Return
           ELSE /\ response' = NoResponse
                /\ UNCHANGED <<queue, processed_cache>>
                /\ IF PassesGate(result)
                   THEN /\ fact' = result.fact
                        /\ pc' = "dup"
                        /\ UNCHANGED <<headline, matches, match>>
                   ELSE Continue
    /\ UNCHANGED <<configVars, callVars, fileVars, archiveVars, now,
                   nHeadlines, kill, alert, gone>>

\* is_duplicate(fact), lines 511-524, and is_duplicate_batch up to its oracle
\* call, lines 390-422
IsDuplicate ==
    /\ pc = "dup"
    /\ IF FastPath(fact, now)
       THEN Continue
       ELSE /\ pc' = IF DupNeedsOracle(fact, load_published_stories(now))
                     THEN "dup_oracle"
                     ELSE "match"
            /\ UNCHANGED factVars
    /\ UNCHANGED <<configVars, callVars, fileVars, archiveVars, now, queue,
                   processed_cache, nHeadlines, kill, alert, response, gone>>

\* is_duplicate_batch, lines 418-428: the oracle's reply, "ERROR" standing
\* for a call that raises
DupOracleReply ==
    /\ pc = "dup_oracle"
    /\ \E answer \in {"YES", "NO", "ERROR"} :
         pc' = CASE answer = "YES" -> "dup_yes"
                 [] answer = "ERROR" -> "dup_err"
                 [] OTHER -> "match"
    /\ UNCHANGED <<configVars, callVars, fileVars, archiveVars, factVars, now,
                   queue, processed_cache, nHeadlines, kill, alert, response,
                   gone>>

\* is_duplicate_batch returning False on the answer YES
YesIsNotDuplicate == FALSE

\* is_duplicate_batch, lines 425-427: the answer YES returns True
YesIsDuplicate == TRUE

\* is_duplicate_batch, lines 425-427, and process_cycle, lines 936-938: on
\* the answer YES is_duplicate returns True and the loop goes on to the next
\* headline
DuplicateFound ==
    /\ pc = "dup_yes"
    /\ IF YesIsDuplicate
       THEN Continue
       ELSE pc' = "match" /\ UNCHANGED factVars
    /\ UNCHANGED <<configVars, callVars, fileVars, archiveVars, now, queue,
                   processed_cache, nHeadlines, kill, alert, response, gone>>

\* is_duplicate_batch, lines 430-432: the except block returns False
DupOracleError ==
    /\ pc = "dup_err"
    /\ pc' = "match"
    /\ UNCHANGED <<configVars, callVars, fileVars, archiveVars, factVars, now,
                   queue, processed_cache, nHeadlines, kill, alert, response,
                   gone>>

\* the matcher handed the stored queue, not the queue of the running cycle
MatcherQueueStored == queueFile

\* process_cycle, line 941: find_matching_stories(fact, queue) is handed the
\* local queue of the running cycle
MatcherQueue == queue

\* find_matching_stories(fact, queue) up to its oracle call, lines 328-366
FindMatches ==
    /\ pc = "match"
    /\ pc' = IF MatchNeedsOracle(fact, MatcherQueue) THEN "match_oracle" ELSE "decide"
    /\ matches' = <<>>
    /\ UNCHANGED <<configVars, callVars, fileVars, archiveVars, now, queue,
                   processed_cache, headline, fact, match, nHeadlines, kill,
                   alert, response, gone>>

\* find_matching_stories, lines 362-383: the oracle's reply is parsed, or
\* the call raises
MatchOracleReply ==
    /\ pc = "match_oracle"
    /\ \/ matches' = <<>> /\ pc' = "decide"      \* "NONE" or an empty reply
       \/ /\ matches' \in
                {ParseMatches(answer, 1, MatchCandidates(fact, MatcherQueue)) :
                    answer \in Replies(Len(MatchCandidates(fact, MatcherQueue)))}
          /\ pc' = "decide"
       \/ matches' = <<>> /\ pc' = "match_err"   \* the call raises
    /\ UNCHANGED <<configVars, callVars, fileVars, archiveVars, now, queue,
                   processed_cache, headline, fact, match, nHeadlines, kill,
                   alert, response, gone>>

\* find_matching_stories, lines 385-387: the except block returns []
MatchOracleError ==
    /\ pc = "match_err"
    /\ matches' = <<>>
    /\ pc' = "decide"
    /\ UNCHANGED <<configVars, callVars, fileVars, archiveVars, now, queue,
                   processed_cache, headline, fact, match, nHeadlines, kill,
                   alert, response, gone>>

\* process_cycle, lines 943-977: publish with the first independent match,
\* or enqueue when there is no match
Decide ==
    /\ pc = "decide"
    /\ IF matches # <<>>
       THEN LET i == FirstIndependent(headline.source_id, matches)
            IN  IF i # 0
                THEN /\ match' = matches[i]
                     /\ pc' = "publish"
                     /\ UNCHANGED <<queue, headline, fact, matches>>
                ELSE Continue /\ UNCHANGED queue
       ELSE /\ queue' = Append(queue, [fact |-> fact,
                                       source_id |-> headline.source_id,
                                       timestamp |-> headline.timestamp])
            /\ Continue
    /\ UNCHANGED <<configVars, callVars, fileVars, archiveVars, now,
                   processed_cache, nHeadlines, kill, alert, response, gone>>

\* process_cycle, lines 957-958: write_current_story and append_daily_log,
\* which writes the daily log and appends the story to stories.json
\* (update_stories_json, 665-697)
PublishWrite ==
    /\ pc = "publish"
    /\ logFile' = logFile \cup {Date(now)}
    /\ storiesFile' =
         [date |-> Date(now),
          stories |-> Append(IF storiesFile.date = Date(now)
                             THEN storiesFile.stories ELSE <<>>,
                             [fact |-> fact,
                              source |-> <<headline.source_id, match.source_id>>])]
    /\ pc' = "mark"
    /\ UNCHANGED <<configVars, callVars, queueFile, shownFile, processedFile,
                   archiveDir, factVars, now, queue, processed_cache,
                   nHeadlines, kill, alert, response, gone>>

\* process_cycle, lines 959-966: add_shown_hash, then remove the match
PublishMark ==
    /\ pc = "mark"
    /\ shownFile' = shownFile \cup {<<Date(now), get_story_hash(fact)>>}
    /\ queue' = RemoveMatch(queue, match)
    /\ gone' = gone \cup (Range(queue) \ Range(queue'))
    /\ Continue
    /\ UNCHANGED <<configVars, callVars, queueFile, storiesFile, processedFile,
                   archiveVars, now, processed_cache, nHeadlines, kill, alert,
                   response>>

\* process_cycle, line 980, then main's sleep: the queue is saved
EndCycle ==
    /\ pc = "loop"
    /\ queueFile' = queue
    /\ pc' = "idle"
    /\ Return
    /\ UNCHANGED <<configVars, callVars, shownFile, storiesFile, processedFile,
                   archiveVars, now, nHeadlines, kill, alert, gone>>

\* main, line 1016: a write of the cycle raises (the processed-headline
\* file, the output files, the RSS feed, the shown-hash file or the queue
\* file) and the exception reaches the handler of the loop
CycleFail ==
    /\ pc \in {"loop", "publish", "mark"}
    /\ pc' = "alert"
    /\ Return
    /\ UNCHANGED <<configVars, callVars, fileVars, archiveVars, now,
                   nHeadlines, kill, alert, gone>>

\* send_alert whose except block is missing: a failing sink ends the process
SinkFailureEscapes == "crashed"

\* send_alert, lines 829-830: the except block logs and returns to the
\* handler, which goes on to its sleep
SinkFailureCaught == "cooldown"

\* main, line 1018: send_alert(), lines 813-830; the sink accepts the
\* message or raises
SendAlert ==
    /\ pc = "alert"
    /\ \/ alert' = "sent" /\ pc' = "cooldown"
       \/ alert' = "failed" /\ pc' = SinkFailureCaught
    /\ UNCHANGED <<configVars, callVars, fileVars, archiveVars, factVars, now,
                   queue, processed_cache, nHeadlines, kill, response, gone>>

\* main, line 1019: time.sleep(60), then the loop starts over
Cooldown ==
    /\ pc = "cooldown"
    /\ pc' = "idle"
    /\ alert' = "none"
    /\ UNCHANGED <<configVars, callVars, fileVars, archiveVars, factVars, now,
                   queue, processed_cache, nHeadlines, kill, response, gone>>

\* KeyboardInterrupt: caught at line 1013 when it arrives in the try block,
\* uncaught when it arrives in the handler; either way the process ends, and
\* with it the count of its headlines
Interrupt ==
    /\ Exposed
    /\ pc' = "interrupted"
    /\ Return
    /\ nHeadlines' = 0
    /\ alert' = "none"
    /\ UNCHANGED <<configVars, callVars, fileVars, archiveVars, now, kill, gone>>

Next ==
    \/ Tick
    \/ TouchKill
    \/ CheckMidnightArchive
    \/ StartCycle
    \/ Scrape
    \/ NextHeadline
    \/ ExtractReply
    \/ Extract
    \/ IsDuplicate
    \/ DupOracleReply
    \/ DuplicateFound
    \/ DupOracleError
    \/ FindMatches
    \/ MatchOracleReply
    \/ MatchOracleError
    \/ Decide
    \/ PublishWrite
    \/ PublishMark
    \/ EndCycle
    \/ CycleFail
    \/ SendAlert
    \/ Cooldown
    \/ Interrupt

Spec == Init /\ [][Next]_vars

---------------------------------------------------------------------------
(* The polling loop over a whole timeout: the process starts one timeout   *)
(* before the last clock value, the clock keeps advancing and cycles keep  *)
(* completing                                                              *)

\* the last value of the clock
LastHour == StartHour + MaxTicks * HoursPerTick

LiveStartHour == LastHour - queue_timeout_hours

\* data/queue.json as the previous run of the process left it: empty, or
\* holding A's report of the park story, scraped one tick before the start
LiveInitialQueues ==
    {<<>>,
     <<[fact |-> FactPark, source_id |-> "A",
        timestamp |-> LiveStartHour - HoursPerTick]>>}

InitLive ==
    /\ sources = ScenarioSources
    /\ max_shared_top_holders = ScenarioMaxShared
    /\ NoCall
    /\ now = LiveStartHour
    /\ pc = "idle"
    /\ queueFile \in LiveInitialQueues
    /\ queue = <<>>
    /\ shownFile = {}
    /\ storiesFile = NoStories
    /\ processedFile = {}
    /\ processed_cache = {}
    /\ headline = NoHeadline
    /\ fact = <<>>
    /\ matches = <<>>
    /\ match = NoItem
    /\ nHeadlines = 0
    /\ logFile = {}
    /\ archiveDir = {}
    /\ kill = FALSE
    /\ alert = "none"
    /\ response = NoResponse
    /\ gone = {}

\* main, lines 1001-1011: the sleep ends each time (the clock advances) and
\* process_cycle keeps returning normally, so that save_queue keeps running
SpecLive ==
    /\ InitLive
    /\ [][Next]_vars
    /\ SF_vars(Tick)
    /\ []<><<EndCycle>>_vars

---------------------------------------------------------------------------
(* The polling loop on a feed in which two sources carry the same headline *)

\* B and C, which are independent, carry one wire headline word for word;
\* C also reports the park story in other words
WireFeed ==
    {[text |-> <<"h", "2">>, source_id |-> "B", fact |-> FactPark],
     [text |-> <<"h", "2">>, source_id |-> "C", fact |-> FactPark],
     [text |-> <<"h", "5">>, source_id |-> "C", fact |-> FactParkFund]}

NextHeadlineWire == NextHeadlineFrom(WireFeed)

ExtractReplyWire == ExtractReplyFrom(WireFeed)

NextWire ==
    \/ Tick
    \/ TouchKill
    \/ CheckMidnightArchive
    \/ StartCycle
    \/ Scrape
    \/ NextHeadlineWire
    \/ ExtractReplyWire
    \/ Extract
    \/ IsDuplicate
    \/ DupOracleReply
    \/ DuplicateFound
    \/ DupOracleError
    \/ FindMatches
    \/ MatchOracleReply
    \/ MatchOracleError
    \/ Decide
    \/ PublishWrite
    \/ PublishMark
    \/ EndCycle
    \/ CycleFail
    \/ SendAlert
    \/ Cooldown
    \/ Interrupt

SpecWire == Init /\ [][NextWire]_vars

---------------------------------------------------------------------------
(* are_sources_unrelated called directly, over every registry of two       *)
(* sources and every pair of ids, known or not                             *)

CallIds == {"A", "B"}
ArgIds == CallIds \cup {"X"}           \* "X" is in no registry
CallOwners == {"Acme", "Civic"}
SourceRecord == [owner : CallOwners, institutional_holders : SUBSET Holders]

\* no pipeline runs while a function is called directly
PipelineOff ==
    /\ now = StartHour
    /\ queueFile = <<>>
    /\ queue = <<>>
    /\ shownFile = {}
    /\ storiesFile = NoStories
    /\ processedFile = {}
    /\ processed_cache = {}
    /\ headline = NoHeadline
    /\ fact = <<>>
    /\ matches = <<>>
    /\ match = NoItem
    /\ nHeadlines = 0
    /\ logFile = {}
    /\ archiveDir = {}
    /\ kill = FALSE
    /\ alert = "none"
    /\ response = NoResponse
    /\ gone = {}

InitCall ==
    /\ sources \in [CallIds -> SourceRecord]
    /\ max_shared_top_holders \in 0..MaxShared
    /\ NoCall
    /\ pc = "call"
    /\ PipelineOff

CallUnrelated ==
    /\ pc = "call"
    /\ \E a \in ArgIds, b \in ArgIds :
         /\ arg1' = a
         /\ arg2' = b
         /\ ret' = are_sources_unrelated(a, b)
    /\ UNCHANGED <<configVars, fileVars, archiveVars, factVars, now, pc, queue,
                   processed_cache, nHeadlines, kill, alert, response, gone,
                   fact1, fact2, threshold, overlap, matchAnswer>>

NextCall == CallUnrelated

SpecCall == InitCall /\ [][NextCall]_vars

---------------------------------------------------------------------------
(* has_word_overlap called directly, over facts of up to MaxWords words    *)
(* and thresholds below, at and above the default and above 100 percent    *)

Vocabulary == {<<"p", "a", "r", "k">>, <<"P", "A", "R", "K">>, <<"o", "k">>,
               <<"f", "u", "n", "d">>}

RECURSIVE Join(_, _)
\* " ".join(words[i..])
Join(words, i) ==
    IF i > Len(words)
    THEN <<>>
    ELSE IF i = Len(words)
         THEN words[i]
         ELSE words[i] \o <<" ">> \o Join(words, i + 1)

\* the facts: the empty one, a blank one, and the words joined by blanks
OverlapFacts ==
    {<<" ">>} \cup {Join(ws, 1) : ws \in UNION {[1..k -> Vocabulary] : k \in 0..MaxWords}}

ThresholdPercents == {0, OverlapPercent, 50, 100, 150}

InitOverlap ==
    /\ sources = ScenarioSources
    /\ max_shared_top_holders = ScenarioMaxShared
    /\ arg1 = "" /\ arg2 = "" /\ ret = FALSE
    /\ fact1 \in OverlapFacts
    /\ fact2 \in OverlapFacts
    /\ threshold \in ThresholdPercents
    /\ overlap = FALSE
    /\ matchAnswer = NoAnswer
    /\ pc = "call_overlap"
    /\ PipelineOff

CallOverlap ==
    /\ pc = "call_overlap"
    /\ overlap' = has_word_overlap_at(fact1, fact2, threshold)
    /\ pc' = "done"
    /\ UNCHANGED <<configVars, fileVars, archiveVars, factVars, now, queue,
                   processed_cache, nHeadlines, kill, alert, response, gone,
                   arg1, arg2, ret, fact1, fact2, threshold,
                   matchAnswer>>

NextOverlap == CallOverlap

SpecOverlap == InitOverlap /\ [][NextOverlap]_vars

---------------------------------------------------------------------------
(* find_matching_stories called directly, over queues of up to MaxQueue    *)
(* items and every reply of up to MaxReply tokens                          *)

MaxQueue == 2          \* items in the queue handed to find_matching_stories

\* queue items of three different facts; the park facts overlap with each
\* other, the quake fact with neither
MatchItems ==
    {[fact |-> FactPark, source_id |-> "A", timestamp |-> StartHour],
     [fact |-> FactParkFund, source_id |-> "C", timestamp |-> StartHour],
     [fact |-> FactQuake, source_id |-> "D", timestamp |-> StartHour]}

MatchQueues == UNION {[1..k -> MatchItems] : k \in 0..MaxQueue}

\* a token: a number from -1 to one past the longest queue, or text that
\* int() rejects
MatchTokens == {[num |-> TRUE, val |-> k] : k \in (-1)..(MaxQueue + 1)}
               \cup {[num |-> FALSE, val |-> 0]}

MatchAnswers ==
    {Answer("none", <<>>), Answer("empty", <<>>), Answer("raise", <<>>)}
    \cup {Answer("list", ts) : ts \in UNION {[1..k -> MatchTokens] : k \in 1..MaxReply}}

InitMatch ==
    /\ sources = ScenarioSources
    /\ max_shared_top_holders = ScenarioMaxShared
    /\ arg1 = "" /\ arg2 = "" /\ ret = FALSE
    /\ fact1 = <<>> /\ fact2 = <<>> /\ threshold = 0 /\ overlap = FALSE
    /\ matchAnswer \in MatchAnswers
    /\ fact \in {FactPark, FactQuake}
    /\ queue \in MatchQueues
    /\ matches = <<>>
    /\ pc = "call_match"
    /\ now = StartHour
    /\ queueFile = <<>>
    /\ shownFile = {}
    /\ storiesFile = NoStories
    /\ processedFile = {}
    /\ processed_cache = {}
    /\ headline = NoHeadline
    /\ match = NoItem
    /\ nHeadlines = 0
    /\ logFile = {}
    /\ archiveDir = {}
    /\ kill = FALSE
    /\ alert = "none"
    /\ response = NoResponse
    /\ gone = {}

CallMatch ==
    /\ pc = "call_match"
    /\ matches' = find_matching_stories(fact, queue, matchAnswer)
    /\ pc' = "done_match"
    /\ UNCHANGED <<configVars, callVars, fileVars, archiveVars, headline, fact,
                   match, now, queue, processed_cache, nHeadlines, kill, alert,
                   response, gone>>

NextMatch == CallMatch

SpecMatch == InitMatch /\ [][NextMatch]_vars

---------------------------------------------------------------------------
(* Claims *)

Owner(id) == sources[id].owner
SharedHolders(a, b) ==
    sources[a].institutional_holders \cap sources[b].institutional_holders

\* Independence stated from the registry: both known, owners differ, fewer
\* shared holders than the configured maximum
Independent(a, b) ==
    /\ a \in DOMAIN sources
    /\ b \in DOMAIN sources
    /\ Owner(a) # Owner(b)
    /\ Cardinality(SharedHolders(a, b)) < max_shared_top_holders

Publishing == pc \in {"publish", "mark"}

\* C1: every story in today's store pairs two sources that are independent by
\* the registry, and a publication in progress pairs the headline's source
\* with an independent source of an item that is in the queue and among the
\* matches; sources sharing an owner are never paired.
C1_PublishRequiresIndependence ==
    /\ \A i \in 1..Len(storiesFile.stories) :
         Independent(storiesFile.stories[i].source[1],
                     storiesFile.stories[i].source[2])
    /\ Publishing =>
         /\ Independent(headline.source_id, match.source_id)
         /\ match \in Range(queue)
         /\ match \in Range(matches)

\* C1 witness: a story is being published although an earlier match came
\* from a source with the same owner as the headline's
C1_Witness ==
    /\ pc = "mark"
    /\ storiesFile.stories # <<>>
    /\ \E i \in 1..Len(matches) :
         /\ Owner(matches[i].source_id) = Owner(headline.source_id)
         /\ matches[i].fact = match.fact

NewItem == [fact |-> fact, source_id |-> headline.source_id,
            timestamp |-> headline.timestamp]

\* C2: when process_cycle decides on a fact that has matches none of which
\* is from an unrelated source, the fact is appended to the queue as a new
\* item.
C2_RelatedMatchesEnqueue ==
    [][(/\ pc = "decide"
        /\ matches # <<>>
        /\ \A i \in 1..Len(matches) :
             ~Independent(headline.source_id, matches[i].source_id))
       => queue' = Append(queue, NewItem)]_vars

\* C3: today's published stories never hold two entries with the same hash.
C3_NoTwoStoriesSameHash ==
    \A i, j \in 1..Len(storiesFile.stories) :
        i # j => get_story_hash(storiesFile.stories[i].fact)
                 # get_story_hash(storiesFile.stories[j].fact)

\* the sequence s without its i-th element
RemoveAt(s, i) == [k \in 1..(Len(s) - 1) |-> IF k < i THEN s[k] ELSE s[k + 1]]

\* C4: a publication removes exactly the matched item from the queue; every
\* other queue item stays queued.
C4_OnlyMatchedItemRemoved ==
    [][(pc = "mark" /\ pc' = "loop")
       => \E i \in 1..Len(queue) :
             queue[i] = match /\ queue' = RemoveAt(queue, i)]_vars

InCycle == pc \in {"scrape", "loop", "extract", "parse", "dup", "dup_oracle",
                   "dup_yes", "dup_err", "match", "match_oracle", "match_err", "decide",
                   "publish", "mark"}

Age(item) == now - item.timestamp

\* C5: inside a cycle no item of the queue, of the matches, or being
\* consumed has reached the timeout: expiry has run before any matching.
C5_ExpiredNeverCorroborates ==
    InCycle =>
        /\ \A item \in Range(queue) \cup Range(matches) :
             Age(item) < queue_timeout_hours
        /\ Publishing => Age(match) < queue_timeout_hours

\* C5 witness: the stored queue holds an expired report of a fact, and the
\* same fact from an independent source has just been enqueued afresh
C5_Witness ==
    /\ pc = "loop"
    /\ \E old \in Range(queueFile), new \in Range(queue) :
         /\ Age(old) >= queue_timeout_hours
         /\ new.fact = old.fact
         /\ new.timestamp = now
         /\ Independent(new.source_id, old.source_id)
    /\ storiesFile.stories = <<>>

ShownToday(f) == <<Date(now), <<"md5", lower(f)>>>> \in shownFile

\* C7: when is_duplicate runs on a fact whose lower-cased hash is already
\* shown today, the fact is dropped at once: no oracle call is made, the
\* matcher is not reached, and neither the queue nor any file changes.
C7_FastPathDrops ==
    [][(pc = "dup" /\ ShownToday(fact))
       => (pc' = "loop" /\ UNCHANGED <<queue, fileVars>>)]_vars

\* C7 witness: is_duplicate is about to run on a fact that differs in case
\* from a story published today, reported by a source independent of both
\* sources of that story
C7_Witness ==
    /\ pc = "dup"
    /\ ShownToday(fact)
    /\ \E i \in 1..Len(storiesFile.stories) :
         LET story == storiesFile.stories[i]
         IN  /\ storiesFile.date = Date(now)
             /\ story.fact # fact
             /\ lower(story.fact) = lower(fact)
             /\ Independent(headline.source_id, story.source[1])
             /\ Independent(headline.source_id, story.source[2])

\* today's published facts, and the lexical shortlists, stated directly
PublishedToday ==
    IF storiesFile.date = Date(now)
    THEN {storiesFile.stories[i].fact : i \in 1..Len(storiesFile.stories)}
    ELSE {}

DupShortlistEmpty == \A p \in PublishedToday : ~has_word_overlap(fact, p)

MatchShortlistEmpty == \A item \in Range(queue) : ~has_word_overlap(fact, item.fact)

\* C8: is_duplicate past its fast path, and find_matching_stories, call the
\* oracle exactly when their lexical shortlist is not empty (so never on an
\* empty store or queue); without a call they return not-duplicate and no
\* matches; the one call ends in a reply, in the except block or with the
\* process interrupted, and the function then returns without a further call.
C8_OracleCalls ==
    [][/\ (pc = "dup" /\ ~ShownToday(fact)) =>
             /\ (pc' = "dup_oracle") <=> ~DupShortlistEmpty
             /\ pc' # "dup_oracle" => pc' = "match"
       /\ (pc = "dup_oracle" /\ pc' # pc) =>
             pc' \in {"dup_yes", "match", "dup_err", "interrupted"}
       /\ pc = "dup_yes" => pc' = "loop"
       /\ pc = "dup_err" => pc' = "match"
       /\ pc = "match" =>
             /\ (pc' = "match_oracle") <=> ~MatchShortlistEmpty
             /\ pc' # "match_oracle" => (pc' = "decide" /\ matches' = <<>>)
       /\ (pc = "match_oracle" /\ pc' # pc) =>
             pc' \in {"decide", "match_err", "interrupted"}
       /\ pc = "match_err" => pc' = "decide"]_vars

\* C8 witness: find_matching_stories has returned no matches, without an
\* oracle call, on a queue that is not empty and shares no word with the fact
C8_Witness ==
    /\ pc = "decide"
    /\ queue # <<>>
    /\ MatchShortlistEmpty
    /\ matches = <<>>

Called == arg1 # ""

\* C9: are_sources_unrelated returns false for an id the registry does not
\* hold, false for two sources of one owner, false when the shared holder
\* names number at least max_shared_top_holders, and true otherwise.
C9_UnrelatedCases ==
    Called =>
        IF arg1 \notin DOMAIN sources \/ arg2 \notin DOMAIN sources
        THEN ret = FALSE
        ELSE IF Owner(arg1) = Owner(arg2)
             THEN ret = FALSE
             ELSE IF Cardinality(SharedHolders(arg1, arg2))
                     >= max_shared_top_holders
                  THEN ret = FALSE
                  ELSE ret = TRUE

\* C9 witness: a call returned true for two sources that share holders, one
\* fewer than the maximum
C9_Witness ==
    /\ Called
    /\ ret = TRUE
    /\ SharedHolders(arg1, arg2) # {}
    /\ Cardinality(SharedHolders(arg1, arg2)) + 1 = max_shared_top_holders

\* C10: a call's result equals the result for the swapped arguments, and a
\* call with the same id twice returns false.
C10_SymmetricIrreflexive ==
    Called =>
        /\ ret = are_sources_unrelated(arg2, arg1)
        /\ arg1 = arg2 => ret = FALSE

\* C10 witness: a call on a source and itself, known to the registry and
\* with fewer holders than the maximum, has returned
C10_Witness ==
    /\ Called
    /\ arg1 = arg2
    /\ arg1 \in DOMAIN sources
    /\ Cardinality(sources[arg1].institutional_holders) < max_shared_top_holders
    /\ \E b \in DOMAIN sources : are_sources_unrelated(arg1, b)

\* the fact holds a run of three or more non-blank characters
HasLongWord(f) ==
    \E i \in 1..(Len(f) - 2) : f[i] # " " /\ f[i + 1] # " " /\ f[i + 2] # " "

OverlapCalled == pc = "done"

\* C11 as claimed: has_word_overlap gives the same answer with its two facts
\* swapped, at every threshold, and is true of any non-empty fact and itself
\* at the default threshold.
C11_ReflexiveOnNonEmpty ==
    OverlapCalled =>
        /\ overlap = has_word_overlap_at(fact2, fact1, threshold)
        /\ (fact1 = fact2 /\ fact1 # <<>> /\ threshold = OverlapPercent)
              => overlap

\* C11 amended: has_word_overlap gives the same answer with its two facts
\* swapped, at every threshold; of a fact and itself, at a threshold of at
\* most 100 percent, it is true exactly when the fact holds a word of three
\* or more characters.
C11_ReflexiveOnLongWords ==
    OverlapCalled =>
        /\ overlap = has_word_overlap_at(fact2, fact1, threshold)
        /\ (fact1 = fact2 /\ threshold <= 100)
              => (overlap <=> HasLongWord(fact1))

\* C11 witness: a call on a fact of long words and a fact of more words, all
\* long, has returned true at the threshold of 100 percent
C11_Witness ==
    /\ OverlapCalled
    /\ overlap
    /\ threshold = 100
    /\ HasLongWord(fact1)
    /\ Len(split(fact1)) < Len(split(fact2))
    /\ \A w \in Range(split(fact2)) : Len(w) >= 3

Exited == pc \in {"killed", "interrupted"}

\* C12: an exception raised in check_midnight_archive or in process_cycle
\* puts main in its handler and nowhere else; the handler's send_alert ends
\* with the alert sent or with the sink's failure caught, and goes on to the
\* cooldown sleep; after the sleep the loop starts over with the archive
\* check and process_cycle. The process exits only from the kill-switch test
\* at the start of process_cycle or on a keyboard interrupt.
C12_FailureNeverTerminates ==
    [][/\ (pc' = "alert" /\ pc # "alert") => (pc = "idle" \/ InCycle)
       /\ pc = "alert" => (pc' = "cooldown" /\ alert' \in {"sent", "failed"})
       /\ (pc = "cooldown" /\ pc' # pc) => pc' \in {"idle", "interrupted"}
       /\ (pc = "idle" /\ pc' # pc) => pc' \in {"start", "alert", "interrupted"}
       /\ (pc = "start" /\ pc' # pc) => pc' \in {"scrape", "killed"}
       /\ (Exited' /\ ~Exited) =>
             \/ pc' = "killed" /\ pc = "start" /\ kill
             \/ pc' = "interrupted" /\ Exposed
       /\ pc' \in {"idle", "start", "alert", "cooldown"} \/ InCycle' \/ Exited'
      ]_vars

\* C12 witness: a cycle has failed after publishing a story, the alert sink
\* has failed too, and the handler is in its cooldown sleep
C12_Witness ==
    /\ pc = "cooldown"
    /\ alert = "failed"
    /\ storiesFile.stories # <<>>

\* C13: when a cycle is aborted by a failure, the stored queue reflects
\* what the cycle did to its queue up to then: every item of the cycle's
\* queue, the newly enqueued ones included, is stored, and every stored item
\* that has not expired is still in the cycle's queue (none was consumed).
C13_QueuePersistsAcrossFailure ==
    [][(InCycle /\ pc' = "alert") =>
          /\ \A item \in Range(queue) : item \in Range(queueFile')
          /\ \A item \in Range(queueFile') :
               Age(item) < queue_timeout_hours => item \in Range(queue)]_vars

\* C14: the queue a cycle works on never holds an item that an earlier
\* publication removed, nor an item that has reached the timeout.
C14_RemovedNeverReturns ==
    InCycle =>
        \A item \in Range(queue) :
            item \notin gone /\ Age(item) < queue_timeout_hours

\* C15: the process exits on the kill switch only from the test at the
\* start of process_cycle; when the switch exists at that test the process
\* exits at once, with no headline taken, no oracle call, no file written,
\* no alert, and nothing happens afterwards; a switch that appears later in
\* the cycle does not end it.
C15_KillSwitchAtCycleStart ==
    [][/\ (pc' = "killed" /\ pc # "killed") => (pc = "start" /\ kill)
       /\ (pc = "start" /\ kill) =>
             /\ pc' = "killed"
             /\ UNCHANGED <<fileVars, archiveVars, queue, factVars, response,
                            nHeadlines, alert>>
       /\ pc = "killed" => FALSE
       /\ (InCycle /\ kill) => (InCycle' \/ pc' \in {"idle", "alert", "interrupted"})
      ]_vars

\* C15 witness: the process has exited on the kill switch after a cycle that
\* published a story and saved a queue
C15_Witness ==
    /\ pc = "killed"
    /\ storiesFile.stories # <<>>
    /\ queueFile # <<>>

\* C16: a raising call of the extraction oracle is handled as the no-fact
\* sentinel (the loop goes on to the next headline, nothing enqueued or
\* written), one of the duplicate-check oracle as not-duplicate (the fact
\* goes on to the matcher), one of the matching oracle as no match (the fact
\* is enqueued); none of them puts main in its exception handler.
C16_OracleFailureNotFatal ==
    [][/\ (pc = "parse" /\ response.kind = "error") =>
             (pc' = "loop" /\ UNCHANGED <<queue, fileVars, archiveVars, alert>>)
       /\ pc = "dup_err" =>
             (pc' = "match" /\ UNCHANGED <<queue, fileVars, factVars>>)
       /\ pc = "match_err" =>
             (pc' = "decide" /\ matches' = <<>> /\ UNCHANGED <<queue, fileVars>>)
       /\ (pc = "decide" /\ matches = <<>>) =>
             (pc' = "loop" /\ queue' = Append(queue, NewItem))
      ]_vars

\* C16 witness: the matching oracle has raised on a fact for which the queue
\* holds a report from an independent source
C16_Witness ==
    /\ pc = "match_err"
    /\ \E item \in Range(queue) :
         /\ Independent(headline.source_id, item.source_id)
         /\ has_word_overlap(fact, item.fact)

\* the response is text json.loads rejects, or an object without the fact
\* or without the confidence
Malformed(r) ==
    \/ r.kind = "text"
    \/ r.kind = "json" /\ (~r.has_fact \/ ~r.has_confidence)

\* C17: a malformed response of the extraction oracle is handled as the
\* no-fact sentinel: the loop goes on to the next headline, main's exception
\* handler is not entered, and nothing is enqueued or written.
C17_MalformedDegrades ==
    [][(pc = "parse" /\ Malformed(response)) =>
          (pc' = "loop" /\ UNCHANGED <<queue, fileVars, archiveVars>>)]_vars

\* the fact of the result is a fact, and the confidence is the minimum or more
FactAndConfidence(r) ==
    /\ r.has_fact
    /\ r.fact # SKIP
    /\ r.has_confidence
    /\ r.confidence >= min_confidence

FlagTrue(r) == r.has_newsworthy /\ r.newsworthy

FlagTrueOrAbsent(r) == r.has_newsworthy => r.newsworthy

\* A fact enters the pipeline only as the fact of the extraction result in
\* hand, which is a fact of sufficient confidence with its flag true (strict)
\* or not false; only the fact in the pipeline is enqueued, by the decision
\* step, or written as a story, by the publication step.
OnlyGatedFacts(strict) ==
    /\ (fact' # fact /\ fact' # <<>>) =>
          /\ pc = "parse"
          /\ FactAndConfidence(extract_fact(response))
          /\ IF strict THEN FlagTrue(extract_fact(response))
                       ELSE FlagTrueOrAbsent(extract_fact(response))
          /\ fact' = extract_fact(response).fact
    /\ (pc # "start" /\ Len(queue') > Len(queue)) =>
          (pc = "decide" /\ fact # <<>> /\ queue' = Append(queue, NewItem))
    /\ storiesFile' # storiesFile =>
          /\ pc = "publish"
          /\ fact # <<>>
          /\ storiesFile'.stories[Len(storiesFile'.stories)].fact = fact

\* C18 as claimed: every fact enqueued or published is the fact of an
\* extraction result that is not the sentinel, has confidence of at least
\* the minimum and has its newsworthy flag true.
C18_GatedFlagTrue == [][OnlyGatedFacts(TRUE)]_vars

\* C18 amended: every fact enqueued or published is the fact of an
\* extraction result that is not the sentinel, has confidence of at least
\* the minimum and has its newsworthy flag true or missing.
C18_GatedFlagNotFalse == [][OnlyGatedFacts(FALSE)]_vars

\* C18 witness: in the cycle under way one fact has been enqueued and
\* another has been published
C18_Witness ==
    /\ pc = "loop"
    /\ storiesFile.stories # <<>>
    /\ storiesFile.date = Date(now)
    /\ \E item \in Range(queue) :
         item.timestamp = now /\ item \notin Range(queueFile)

\* C19: a headline is sent to the extraction oracle only if no headline of
\* the same text has been marked as processed earlier the same day, in an
\* earlier cycle or in the cycle under way.
C19_HeadlineSubmittedOnce ==
    [][(pc = "loop" /\ pc' = "extract") =>
          <<Date(now), get_story_hash(headline'.text)>> \notin processedFile]_vars

\* C20: is_duplicate reads the current UTC date's partitions only: it drops
\* the fact at once exactly when its hash is among the hashes shown on the
\* current date, and it consults the oracle exactly when a story published on
\* the current date overlaps with the fact; hashes and stories of earlier
\* dates make no fact a duplicate. The first story written on a new date
\* starts the store afresh.
C20_PartitionedByDate ==
    [][/\ pc = "dup" =>
             /\ (pc' = "loop") <=> ShownToday(fact)
             /\ (pc' = "dup_oracle") <=> (~ShownToday(fact) /\ ~DupShortlistEmpty)
             /\ pc' \in {"loop", "dup_oracle", "match"}
       /\ (pc = "publish" /\ pc' = "mark" /\ storiesFile.date # Date(now)) =>
             /\ storiesFile'.date = Date(now)
             /\ Len(storiesFile'.stories) = 1
      ]_vars

\* C20 witness: after a day rollover is_duplicate has found not duplicate a
\* fact whose hash was shown, and whose story was published, the day before
C20_Witness ==
    /\ pc = "match"
    /\ ~ShownToday(fact)
    /\ <<Date(now) - 1, get_story_hash(fact)>> \in shownFile
    /\ storiesFile.date = Date(now) - 1
    /\ \E i \in 1..Len(storiesFile.stories) :
         get_story_hash(storiesFile.stories[i].fact) = get_story_hash(fact)

C22_ArchivedAtRollover ==
    [][(pc = "idle" /\ pc' = "start" /\ Hour(now) = 0) =>
          LET y == Date(now) - 1
          IN  /\ y \in logFile => <<"log", y>> \in archiveDir'
              /\ (\E x \in shownFile : x[1] = y) => <<"shown", y>> \in archiveDir'
              /\ y \notin logFile'
              /\ \A x \in shownFile' \cup processedFile' : x[1] # y]_vars

\* C23: a decision on a fact with matches takes the first match, in the
\* order returned, whose source is independent of the headline's and goes on
\* to publish with it; the publication writes one story, adds the fact's hash
\* to today's shown hashes, removes at most one of the matches from the queue
\* and enqueues nothing.
C23_FirstIndependentWins ==
    [][/\ (pc = "decide" /\ matches # <<>>) =>
             \/ /\ \A i \in 1..Len(matches) :
                      ~Independent(headline.source_id, matches[i].source_id)
                /\ pc' = "loop"
             \/ \E i \in 1..Len(matches) :
                   /\ Independent(headline.source_id, matches[i].source_id)
                   /\ \A j \in 1..(i - 1) :
                        ~Independent(headline.source_id, matches[j].source_id)
                   /\ pc' = "publish"
                   /\ match' = matches[i]
       /\ (pc = "publish" /\ pc' = "mark") =>
             /\ storiesFile'.stories # <<>>
             /\ storiesFile'.stories[Len(storiesFile'.stories)].fact = fact
             /\ Len(storiesFile'.stories) =
                    IF storiesFile.date = Date(now)
                    THEN Len(storiesFile.stories) + 1 ELSE 1
       /\ (pc = "mark" /\ pc' = "loop") =>
             /\ shownFile' = shownFile \cup {<<Date(now), get_story_hash(fact)>>}
             /\ Range(queue') \subseteq Range(queue)
             /\ Cardinality(Range(matches) \cap (Range(queue) \ Range(queue'))) <= 1
      ]_vars

MatchCalled == pc = "done_match"

\* the items of the queue that pass the prefilter against the fact, in order
Shortlist == SelectSeq(queue, LAMBDA item : has_word_overlap(fact, item.fact))

\* the tokens of the reply that are numbers from 1 to the shortlist's length
ValidTokens ==
    SelectSeq(matchAnswer.tokens,
              LAMBDA t : t.num /\ t.val \in 1..Len(Shortlist))

\* C24: find_matching_stories returns the shortlist items at the valid
\* 1-based indices of the reply, in the reply's order, the indices counting
\* in the shortlist and not in the queue; it returns the empty list for the
\* no-match sentinel, an empty reply, a reply without a valid index and a
\* call that raises.
C24_MatchesAreIndexedShortlist ==
    MatchCalled =>
        IF matchAnswer.kind = "list"
        THEN matches = [i \in 1..Len(ValidTokens) |-> Shortlist[ValidTokens[i].val]]
        ELSE matches = <<>>

\* C24 witness: on a queue whose first item is not in the shortlist, the
\* reply "1" plus a token that is not a valid index (a number that is an
\* index of the queue but not of the shortlist) has returned the first item
\* of the shortlist alone
C24_Witness ==
    /\ MatchCalled
    /\ Len(Shortlist) = 1
    /\ Len(queue) = 2
    /\ queue[1] # Shortlist[1]
    /\ matchAnswer.kind = "list"
    /\ \E i, j \in 1..Len(matchAnswer.tokens) :
         /\ matchAnswer.tokens[i] = [num |-> TRUE, val |-> 1]
         /\ matchAnswer.tokens[j] = [num |-> TRUE, val |-> 2]
    /\ matches = <<queue[2]>>

\* the characters i..j of f are a whitespace-separated word of f
IsWord(f, i, j) ==
    /\ \A k \in i..j : f[k] # " "
    /\ i = 1 \/ f[i - 1] = " "
    /\ j = Len(f) \/ f[j + 1] = " "

\* the tokens of a fact: its words of three or more characters, lower-cased
TokenSet(f) ==
    {lower(SubSeq(f, i, j)) :
        <<i, j>> \in {p \in (1..Len(f)) \X (1..Len(f)) :
                         p[1] + 2 <= p[2] /\ IsWord(f, p[1], p[2])}}

\* C25: has_word_overlap is false when either fact has no token; otherwise
\* it is true exactly when the shared tokens number at least the threshold
\* times the size of the smaller token set; two facts without a shared token
\* do not overlap at any threshold above 0.
C25_OverlapContract ==
    OverlapCalled =>
        LET tokens1 == TokenSet(fact1)
            tokens2 == TokenSet(fact2)
            smaller == IF Cardinality(tokens1) <= Cardinality(tokens2)
                       THEN tokens1 ELSE tokens2
        IN  /\ (tokens1 = {} \/ tokens2 = {}) => ~overlap
            /\ (tokens1 # {} /\ tokens2 # {}) =>
                  (overlap <=> Cardinality(tokens1 \cap tokens2) * 100
                                  >= threshold * Cardinality(smaller))
            /\ (tokens1 \cap tokens2 = {} /\ threshold > 0) => ~overlap

\* C25 witness: a call has returned true at 100 percent on two different
\* facts whose one shared token is written in different case, the first
\* fact holding a short word as well and the second a token more
C25_Witness ==
    /\ OverlapCalled
    /\ overlap
    /\ threshold = 100
    /\ Cardinality(TokenSet(fact1) \cap TokenSet(fact2)) = 1
    /\ Cardinality(TokenSet(fact2)) = 2
    /\ \E w \in Range(split(fact1)) : Len(w) < 3
    /\ Range(split(fact1)) \cap Range(split(fact2)) = {}

\* the candidate is dropped: the loop goes on to the next headline, with no
\* matches and with the queue, the stored queue, the shown hashes, the
\* stories and the log as they were
Dropped ==
    /\ pc' = "loop"
    /\ matches' = <<>>
    /\ UNCHANGED <<queue, queueFile, shownFile, storiesFile, logFile>>

\* C26: a fact whose hash is shown today, and a fact for which the
\* duplicate oracle has answered YES, are dropped; the matcher is entered
\* only from the duplicate check, for a fact whose hash is not shown today
\* and for which the oracle has not answered YES.
C26_DuplicateDropped ==
    [][/\ (pc = "dup" /\ ShownToday(fact)) => Dropped
       /\ pc = "dup_yes" => Dropped
       /\ (pc' = "match" /\ pc # "match") =>
             /\ pc \in {"dup", "dup_oracle", "dup_err"}
             /\ ~ShownToday(fact)
      ]_vars

\* C26 witness: the duplicate oracle has answered YES for a fact whose hash
\* is not shown today and that shares a word with a story published today
C26_Witness ==
    /\ pc = "dup_yes"
    /\ ~ShownToday(fact)
    /\ ~DupShortlistEmpty
    /\ \A p \in PublishedToday : lower(p) # lower(fact)

\* the item's age reaches the timeout before the clock stops
ExpiresInTime(item) == item.timestamp + queue_timeout_hours <= LastHour

Marked(text, t) == <<Date(t), get_story_hash(text)>> \in processedFile

\* C28: when a headline is sent to the extraction oracle its text has just
\* been marked as processed in today's file; a mark of today stays in
\* the file for the rest of the day, whatever becomes of the extraction or
\* of the cycle; and no headline whose text is marked today is sent to the
\* oracle, so that no fact is extracted from it again that day.
C28_MarkedBeforeExtraction ==
    [][/\ (pc' = "extract" /\ pc # "extract") =>
             <<Date(now), get_story_hash(headline'.text)>> \in processedFile'
       /\ \A e \in processedFile : e[1] = Date(now') => e \in processedFile'
       /\ (pc' = "extract" /\ pc # "extract") => ~Marked(headline'.text, now)
      ]_vars

\* C29: an enqueue changes the cycle's queue and not the stored one, which
\* is written only when the cycle returns; the matcher calls the oracle
\* exactly when an item of the cycle's queue shares enough words with the
\* fact, its matches are such items of the cycle's queue, and the match
\* taken for a publication is an item of the cycle's queue.
C29_MatcherSeesCycleQueue ==
    [][/\ (pc = "decide" /\ pc' = "loop" /\ matches = <<>>) =>
             (queue' = Append(queue, NewItem) /\ queueFile' = queueFile)
       /\ queueFile' # queueFile => (pc = "loop" /\ pc' = "idle")
       /\ pc = "match" => ((pc' = "match_oracle") <=> ~MatchShortlistEmpty)
       /\ (pc = "match_oracle" /\ pc' = "decide") =>
             \A i \in 1..Len(matches') :
                 /\ matches'[i] \in Range(queue)
                 /\ has_word_overlap(fact, matches'[i].fact)
       /\ (pc = "decide" /\ pc' = "publish") => match' \in Range(queue)
      ]_vars

\* C29 witness: a story is being published with an item that the cycle
\* under way enqueued itself, from an independent source, and that the
\* stored queue does not hold
C29_Witness ==
    /\ pc = "mark"
    /\ match \in Range(queue)
    /\ match \notin Range(queueFile)
    /\ match.timestamp = now
    /\ Independent(headline.source_id, match.source_id)
    /\ nHeadlines = 2

\* C30: the cache a cycle loads holds the hash of every headline text
\* recorded in today's file, whichever source carried it, and no headline
\* whose text is in the cache is taken: from extraction to publication the
\* headline in hand is one whose text the cache does not hold.
C30_CacheKeyedByTextAlone ==
    [][/\ (pc = "scrape" /\ pc' = "loop") =>
             processed_cache' = {get_story_hash(h.text) :
                                   h \in {x \in Feed \cup WireFeed :
                                            Marked(x.text, now)}}
       /\ (pc' = "extract" /\ pc # "extract") =>
             get_story_hash(headline'.text) \notin processed_cache
       /\ (pc' \in {"extract", "parse", "dup", "match", "decide", "publish",
                    "mark"}) =>
             get_story_hash(headline'.text) \notin processed_cache'
      ]_vars

\* C30 witness: in a cycle after the one that enqueued and saved a source's
\* fact, the same day, the feed holds a headline of the same text and fact
\* from an independent source, and the cache holds the text
C30_Witness ==
    /\ pc = "loop"
    /\ \E h \in WireFeed, item \in Range(queue) :
         /\ get_story_hash(h.text) \in processed_cache
         /\ item \in Range(queueFile)
         /\ Date(item.timestamp) = Date(now)
         /\ item.fact = h.fact
         /\ item.source_id # h.source_id
         /\ Independent(h.source_id, item.source_id)
         /\ \E g \in WireFeed : g.text = h.text /\ g.source_id = item.source_id

=============================================================================
